---- MODULE Spec2Model ----
(***************************************************************************)
(* Verification model of the ASA task execution engine:                    *)
(*   - the state machine and AutonomousOrchestrator.run, driven by the     *)
(*     worker job run_task_job (specification SpecOrch);                   *)
(*   - queue admission, submit_task and TaskQueue (SpecQueue);             *)
(*   - the LLM gateway's budget check and chat_completion (SpecGateway).   *)
(***************************************************************************)
EXTENDS Integers, Sequences, FiniteSets, TLC

VARIABLES
    \* ---- orchestrator / worker (SpecOrch) ----
    enable_cit,        \* StateMachine.enable_cit
    current_state,     \* StateMachine.current_state
    state_history,     \* StateMachine.state_history: Seq of [state, result]
    retry_count,       \* retry_configs[s].retry_count
    task_status,       \* persisted Task.status
    job_status,        \* RQ job status of the task's job
    job_cancelled,     \* job.meta["cancelled"]
    pc,                \* position of the worker inside run_task_job / run
    last_signal,       \* local `result` at the end of StateMachine.transition
    handler_result,    \* run's local `result`: what _execute_state handed back
    cancel_at,         \* history: where the worker was when the cancel flag was set
    task_exists,       \* the Task row is in the database
    job_exists,        \* the job's hash is in Redis (Job.fetch finds it)
    ct_pc,             \* position of the cancel_task request
    ct_status,         \* cancel_job's local `status`
    ct_returned,       \* what cancel_job returned: "none", "true", "false"
    probe,             \* result of the worker's last is_job_cancelled
    \* ---- queue and admission (SpecQueue) ----
    default_queue,        \* TaskQueue.default_queue: Seq of jobs [task_id, user_id]
    high_priority_queue,  \* TaskQueue.high_priority_queue
    worker_job,           \* worker.get_current_job() of every worker
    task_rows,            \* the Task table: Seq of [user_id, status, job_id], index = id
    req,                  \* every submit_task request: [pc, user_id, task_id]
    \* ---- LLM gateway (SpecGateway) ----
    gw_task_id,        \* LLMGateway.task_id ("NONE" when absent)
    gw_user_id,        \* LLMGateway.user_id ("NONE" when absent)
    prior_user_cost,   \* cost of the user's LLMUsage rows of today from earlier tasks
    usage_records,     \* LLMUsage rows written through this gateway, in order
    _call_counts,      \* LLMGateway._call_counts
    _total_tokens,     \* LLMGateway._total_tokens
    _total_cost,       \* LLMGateway._total_cost
    attempt,           \* with_retry's attempt counter of the call in progress
    gw_pc,             \* "idle", or "attempt" while chat_completion's wrapper loops
    gw_purpose,        \* purpose of the call in progress
    gw_result,         \* how the last chat_completion ended
    provider_calls,    \* number of client.chat.completions.create invocations
    provider_result,   \* what the last invocation of the call in progress did
    \* ---- with_retry around an operation (SpecRetry) ----
    rh_error_types,    \* error_types of the decoration ({} for None)
    rh_func,           \* the wrapped operation: what it raises, and whether always
    rh_attempt,        \* wrapper's attempt counter
    call_count,        \* number of invocations of the operation in this call
    rh_pc,             \* "idle", or "loop" inside the wrapper's while True
    rh_result,         \* how the wrapper's call ended
    \* ---- patch applicator (SpecPatch) ----
    files,             \* the workspace: path -> Seq of lines, NoFile when absent
    backup_files,      \* .asa_backups: backup path <<path, timestamp>> -> content or NoFile
    applied_patches,   \* PatchApplicator.applied_patches: Seq of [patch, backup_path]
    create_backups,    \* PatchApplicator.create_backups
    now,               \* datetime.now() in whole seconds
    patch_set,         \* patches of the PatchSet handed to apply_patch_set
    dry_run,           \* apply_patch_set's dry_run
    fail_fast,         \* apply_patch_set's fail_fast
    patch_index,       \* number of patches the loop of apply_patch_set is through
    results,           \* apply_patch_set's results: [success, applied, failed]
    pa_pc,             \* "idle", "loop", "returned", "rolled_back"
    original_files,    \* history: the workspace when apply_patch_set was called
    last_apply,        \* history: how the last apply_patch went, and on which file
    \* ---- push channel of one task (SpecPush) ----
    ws_pc,             \* websocket_endpoint: "none", "accepted", "polling", "closed"
    ws_finals          \* number of messages of type final sent

orchVars == <<enable_cit, current_state, state_history, retry_count, task_status,
              job_status, job_cancelled, pc, last_signal,
              handler_result, cancel_at, task_exists, job_exists, ct_pc,
              ct_status, ct_returned, probe>>

queueVars == <<default_queue, high_priority_queue, worker_job, task_rows, req>>

gwVars == <<gw_task_id, gw_user_id, prior_user_cost, usage_records, _call_counts,
            _total_tokens, _total_cost, attempt, gw_pc, gw_purpose, gw_result, provider_calls,
            provider_result>>

rhVars == <<rh_error_types, rh_func, rh_attempt, call_count, rh_pc, rh_result>>

paVars == <<files, backup_files, applied_patches, create_backups, now, patch_set,
            dry_run, fail_fast, patch_index, results, pa_pc, original_files,
            last_apply>>

wsVars == <<ws_pc, ws_finals>>

vars == <<orchVars, queueVars, gwVars, rhVars, paVars, wsVars>>

\* ---------------------------------------------------------------------------
\* Bounds
\* ---------------------------------------------------------------------------
MaxHistory == 14

\* seconds the clock can advance while patches are applied
MaxClock == 1

\* patches in a PatchSet
MaxPatches == 2

\* queue limits of QueueConfig, scaled down
MAX_QUEUE_SIZE == 2

MAX_CONCURRENT_JOBS == 2

MAX_PER_USER_CONCURRENT == 1

\* budget limits of BudgetLimits, scaled down: tokens in units of tokens,
\* cost in units of 1e-8 USD (price in cents per 1M tokens, times tokens)
MAX_TOKENS_PER_TASK == 4

MAX_COST_PER_TASK_USD == 1500

MAX_COST_PER_USER_PER_DAY_USD == 3000

\* max_calls_per_task of the pinned model configs, scaled down
MaxCallsPerTask == 2

\* no more LLMUsage rows than this are written in a run of the model
MaxRecords == 4

\* ---------------------------------------------------------------------------
\* state_machine.py
\* ---------------------------------------------------------------------------
TaskState == {"QUEUED", "INIT", "CLONING_REPO", "INDEXING_CODE",
              "VERIFYING_BUG_BEHAVIOR", "RUNNING_TESTS_BEFORE_FIX",
              "GENERATING_FIX", "RUNNING_TESTS_AFTER_FIX",
              "VERIFYING_FIX_BEHAVIOR", "CREATING_PR_BRANCH",
              "COMPLETED", "FAILED", "TIMEOUT", "RETRY"}

TransitionCondition == {"success", "failure", "timeout", "retry_exhausted",
                        "tests_pass", "tests_fail", "bug_confirmed",
                        "bug_not_found", "fix_validated", "fix_invalid"}

is_terminal(s) == s \in {"COMPLETED", "FAILED", "TIMEOUT"}

\* rows whose successful fix generation goes straight to the PR step
StateTransition_untested(f, t, c) ==
    [from_state |-> f,
     to_state |-> IF f = "GENERATING_FIX" /\ c = "success"
                  THEN "CREATING_PR_BRANCH" ELSE t,
     condition |-> c]

\* rows whose failure of CREATING_PR_BRANCH leads to FAILED
StateTransition_pr_fatal(f, t, c) ==
    [from_state |-> f,
     to_state |-> IF f = "CREATING_PR_BRANCH" /\ c = "failure" THEN "FAILED" ELSE t,
     condition |-> c]

StateTransition(f, t, c) == [from_state |-> f, to_state |-> t, condition |-> c]

_define_transitions(cit) ==
    << StateTransition("QUEUED", "INIT", "success"),
       StateTransition("INIT", "CLONING_REPO", "success"),
       StateTransition("CLONING_REPO", "INDEXING_CODE", "success"),
       StateTransition("CLONING_REPO", "FAILED", "failure"),
       StateTransition("INDEXING_CODE",
                       IF cit THEN "VERIFYING_BUG_BEHAVIOR" ELSE "RUNNING_TESTS_BEFORE_FIX",
                       "success"),
       StateTransition("INDEXING_CODE", "FAILED", "failure"),
       StateTransition("VERIFYING_BUG_BEHAVIOR", "RUNNING_TESTS_BEFORE_FIX", "bug_confirmed"),
       StateTransition("VERIFYING_BUG_BEHAVIOR", "RUNNING_TESTS_BEFORE_FIX", "bug_not_found"),
       StateTransition("RUNNING_TESTS_BEFORE_FIX", "GENERATING_FIX", "tests_fail"),
       StateTransition("RUNNING_TESTS_BEFORE_FIX", "FAILED", "tests_pass"),
       StateTransition("RUNNING_TESTS_BEFORE_FIX", "FAILED", "failure"),
       StateTransition("GENERATING_FIX", "RUNNING_TESTS_AFTER_FIX", "success"),
       StateTransition("GENERATING_FIX", "RETRY", "failure"),
       StateTransition("GENERATING_FIX", "FAILED", "retry_exhausted"),
       StateTransition("RUNNING_TESTS_AFTER_FIX",
                       IF cit THEN "VERIFYING_FIX_BEHAVIOR" ELSE "CREATING_PR_BRANCH",
                       "tests_pass"),
       StateTransition("RUNNING_TESTS_AFTER_FIX", "RETRY", "tests_fail"),
       StateTransition("RUNNING_TESTS_AFTER_FIX", "FAILED", "retry_exhausted"),
       StateTransition("VERIFYING_FIX_BEHAVIOR", "CREATING_PR_BRANCH", "fix_validated"),
       StateTransition("VERIFYING_FIX_BEHAVIOR", "CREATING_PR_BRANCH", "fix_invalid"),
       StateTransition("CREATING_PR_BRANCH", "COMPLETED", "success"),
       StateTransition("CREATING_PR_BRANCH", "COMPLETED", "failure"),
       StateTransition("RETRY", "GENERATING_FIX", "success") >>

\* matches comparing the condition only
matches_condition_only(t, cur, result) == t.condition = result

matches(t, cur, result) == t.from_state = cur /\ t.condition = result

\* retry_configs: the states that own a counter, and each counter's max_retries
RetryStates == {"GENERATING_FIX", "RUNNING_TESTS_AFTER_FIX"}

max_retries(s) == IF s = "GENERATING_FIX" THEN 2 ELSE 1

can_retry(rc, s) == rc[s] < max_retries(s)

\* _get_retry_state taking the last entry of the history, the state being left
_get_retry_state_last(hist) ==
    IF Len(hist) >= 1 THEN hist[Len(hist)].state ELSE "NONE"

\* the state of the entry before the last one of the history, "NONE" if absent
_get_retry_state(hist) ==
    IF Len(hist) >= 2 THEN hist[Len(hist) - 1].state ELSE "NONE"

StateContext(s) == [state |-> s, result |-> "none"]

\* first matching row of the table, 0 when there is none
FirstMatch(cit, cur, result) ==
    LET T == _define_transitions(cit)
        M == {i \in DOMAIN T : matches(T[i], cur, result)}
    IN IF M = {} THEN 0 ELSE CHOOSE i \in M : \A j \in M : i <= j

\* StateMachine.transition(result), as a function of the machine's fields.
\* raised = TRUE is the ValueError of an absent row; the exit record of the
\* last history entry is written before the lookup and survives the raise.
transition(cit, cur, hist, rc, result) ==
    LET hist1 == IF Len(hist) > 0
                 THEN [hist EXCEPT ![Len(hist)].result = result]
                 ELSE hist
        k     == FirstMatch(cit, cur, result)
        nxt   == IF k = 0 THEN "NONE" ELSE _define_transitions(cit)[k].to_state
        rs    == _get_retry_state(hist1)
        retry == nxt = "RETRY" /\ rs \in RetryStates
        nxt2  == IF retry
                 THEN (IF can_retry(rc, rs) THEN rs ELSE "FAILED")
                 ELSE nxt
        rc2   == IF retry /\ can_retry(rc, rs)
                 THEN [rc EXCEPT ![rs] = @ + 1]
                 ELSE rc
        sig   == IF retry /\ ~can_retry(rc, rs) THEN "retry_exhausted" ELSE result
    IN IF k = 0
       THEN [raised |-> TRUE, current_state |-> cur, state_history |-> hist1,
             retry_count |-> rc, signal |-> result]
       ELSE [raised |-> FALSE, current_state |-> nxt2,
             state_history |-> Append(hist1, StateContext(nxt2)),
             retry_count |-> rc2, signal |-> sig]

\* ---------------------------------------------------------------------------
\* autonomous_orchestrator.py
\* ---------------------------------------------------------------------------
\* What _execute_state can hand back for a state: the return values of the
\* state's handler, or "raise" for an exception escaping _execute_state
\* (the status commit, a query or _log failing; ValueError for an unknown state).
_execute_state(s) ==
    CASE s = "INIT"                     -> {"success", "raise"}
      [] s = "CLONING_REPO"             -> {"success", "failure", "raise"}
      [] s = "INDEXING_CODE"            -> {"success", "failure", "raise"}
      [] s = "VERIFYING_BUG_BEHAVIOR"   -> {"bug_confirmed", "bug_not_found", "raise"}
      [] s = "RUNNING_TESTS_BEFORE_FIX" -> {"tests_pass", "tests_fail", "failure", "raise"}
      [] s = "GENERATING_FIX"           -> {"success", "failure", "raise"}
      [] s = "RUNNING_TESTS_AFTER_FIX"  -> {"tests_pass", "tests_fail", "failure", "raise"}
      [] s = "VERIFYING_FIX_BEHAVIOR"   -> {"fix_validated", "fix_invalid", "raise"}
      [] s = "CREATING_PR_BRANCH"       -> {"success", "failure", "raise"}
      [] s = "RETRY"                    -> {"success", "raise"}
      [] OTHER                          -> {"raise"}

\* ---------------------------------------------------------------------------
\* queue.py: TaskQueue
\* ---------------------------------------------------------------------------
Requests == {"r1", "r2", "r3"}

Users == {"alice", "bob"}

NoUser == "NONE"

\* worker processes: worker.py starts one Worker per process and nothing
\* limits how many processes are started
Workers == {"w1", "w2", "w3"}

NoJob == [task_id |-> 0, user_id |-> NoUser]

\* number of jobs in a queue whose meta names the user
QueuedOf(q, user_id) == Cardinality({i \in DOMAIN q : q[i].user_id = user_id})

get_queue_size(dq) == Len(dq)

get_active_jobs_count(wj) == Cardinality({w \in Workers : wj[w] # NoJob})

\* running jobs of the user, plus the user's jobs queued in the default queue
get_user_active_jobs(dq, wj, user_id) ==
    Cardinality({w \in Workers : wj[w] # NoJob /\ wj[w].user_id = user_id})
      + QueuedOf(dq, user_id)

can_enqueue_above(dq, wj, user_id) ==
    /\ ~(get_queue_size(dq) > MAX_QUEUE_SIZE)
    /\ ~(get_active_jobs_count(wj) >= MAX_CONCURRENT_JOBS)
    /\ (user_id # NoUser
          => ~(get_user_active_jobs(dq, wj, user_id) >= MAX_PER_USER_CONCURRENT))

can_enqueue(dq, wj, user_id) ==
    /\ ~(get_queue_size(dq) >= MAX_QUEUE_SIZE)
    /\ ~(get_active_jobs_count(wj) >= MAX_CONCURRENT_JOBS)
    /\ (user_id # NoUser
          => ~(get_user_active_jobs(dq, wj, user_id) >= MAX_PER_USER_CONCURRENT))

QueueIdle ==
    /\ default_queue = << >>
    /\ high_priority_queue = << >>
    /\ worker_job = [w \in Workers |-> NoJob]
    /\ task_rows = << >>
    /\ req = [r \in Requests |-> [pc |-> "idle", user_id |-> NoUser, task_id |-> 0]]

\* ---------------------------------------------------------------------------
\* core/errors.py: taxonomy;  core/limits.py: model pinning and prices
\* ---------------------------------------------------------------------------
RetryPolicy(should_retry, max_attempts) ==
    [should_retry |-> should_retry, max_attempts |-> max_attempts]

ErrorInfo(category, policy) == [category |-> category, retry_policy |-> policy]

\* the members of the enum ErrorType
ErrorType ==
    {"network_timeout", "network_connection", "llm_rate_limit", "llm_timeout",
     "sandbox_timeout", "database_lock", "github_api_rate_limit",
     "llm_invalid_response", "parse_error", "file_not_found",
     "git_authentication_failed", "github_repo_not_found", "sandbox_failed",
     "test_compilation_failed", "guardian_rejected", "secret_exposed",
     "unsafe_code", "budget_exceeded", "invalid_input", "missing_required_field",
     "invalid_repo_url", "token_budget_exceeded", "cost_budget_exceeded",
     "time_budget_exceeded", "queue_full"}

\* the kinds that have an entry in ERROR_TAXONOMY
TaxonomyKinds ==
    {"network_timeout", "network_connection", "llm_rate_limit", "llm_timeout",
     "llm_invalid_response", "sandbox_timeout", "sandbox_failed",
     "git_authentication_failed", "github_api_rate_limit", "guardian_rejected",
     "secret_exposed", "token_budget_exceeded", "cost_budget_exceeded",
     "invalid_input", "file_not_found"}

ERROR_TAXONOMY(k) ==
    CASE k = "network_timeout"           -> ErrorInfo("transient", RetryPolicy(TRUE, 3))
      [] k = "network_connection"        -> ErrorInfo("transient", RetryPolicy(TRUE, 3))
      [] k = "llm_rate_limit"            -> ErrorInfo("transient", RetryPolicy(TRUE, 5))
      [] k = "llm_timeout"               -> ErrorInfo("transient", RetryPolicy(TRUE, 2))
      [] k = "llm_invalid_response"      -> ErrorInfo("permanent", RetryPolicy(FALSE, 0))
      [] k = "sandbox_timeout"           -> ErrorInfo("transient", RetryPolicy(TRUE, 2))
      [] k = "sandbox_failed"            -> ErrorInfo("permanent", RetryPolicy(FALSE, 0))
      [] k = "git_authentication_failed" -> ErrorInfo("user", RetryPolicy(FALSE, 0))
      [] k = "github_api_rate_limit"     -> ErrorInfo("transient", RetryPolicy(TRUE, 3))
      [] k = "guardian_rejected"         -> ErrorInfo("policy", RetryPolicy(FALSE, 0))
      [] k = "secret_exposed"            -> ErrorInfo("policy", RetryPolicy(FALSE, 0))
      [] k = "token_budget_exceeded"     -> ErrorInfo("resource", RetryPolicy(FALSE, 0))
      [] k = "cost_budget_exceeded"      -> ErrorInfo("resource", RetryPolicy(FALSE, 0))
      [] k = "invalid_input"             -> ErrorInfo("user", RetryPolicy(FALSE, 0))
      [] k = "file_not_found"            -> ErrorInfo("permanent", RetryPolicy(FALSE, 0))

\* ASAError.should_retry: the policy's flag, FALSE for a kind without entry
should_retry(k) ==
    IF k \in TaxonomyKinds THEN ERROR_TAXONOMY(k).retry_policy.should_retry ELSE FALSE

\* the placeholders of the kind's user_message_template
TemplatePlaceholders(k) ==
    CASE k \in {"network_timeout", "network_connection", "llm_rate_limit"}
              -> {"attempt", "max_attempts"}
      [] k = "file_not_found" -> {"file_path"}
      [] k = "invalid_input"  -> {"details"}
      [] OTHER -> {}

\* ASAError.__init__ formats the template with the details when no message
\* is given: a placeholder without a detail raises KeyError
ASAErrorRaises(k, has_message, detail_keys) ==
    /\ ~has_message
    /\ k \in TaxonomyKinds
    /\ ~(TemplatePlaceholders(k) \subseteq detail_keys)

\* classify_exception of that KeyError (its text holds none of the fragments)
ClassifyKeyError == "sandbox_failed"

\* the kinds classify_exception can return
ClassifiedKinds ==
    {"network_timeout", "network_connection", "llm_rate_limit",
     "llm_invalid_response", "file_not_found", "git_authentication_failed",
     "sandbox_failed"}

\* two of the purposes and the model each is pinned to
Purposes == {"fix_generation", "guardian"}

get_model_config(purpose) ==
    IF purpose = "fix_generation"
    THEN [model |-> "gpt-4o", max_calls_per_task |-> MaxCallsPerTask]
    ELSE [model |-> "gpt-4o-mini", max_calls_per_task |-> MaxCallsPerTask]

\* MODEL_PRICING in dictionary order, prices in cents per 1M tokens
MODEL_PRICING ==
    << [name |-> "gpt-4o",        input |-> 250,  output |-> 1000],
       [name |-> "gpt-4o-mini",   input |-> 15,   output |-> 60],
       [name |-> "gpt-4-turbo",   input |-> 1000, output |-> 3000],
       [name |-> "gpt-4",         input |-> 3000, output |-> 6000],
       [name |-> "gpt-3.5-turbo", input |-> 50,   output |-> 150] >>

\* str.startswith on the model names that occur
StartsWith(model, prefix) ==
    \/ model = prefix
    \/ model = "gpt-4o" /\ prefix = "gpt-4"
    \/ model = "gpt-4o-mini" /\ prefix \in {"gpt-4o", "gpt-4"}
    \/ model = "gpt-4-turbo" /\ prefix = "gpt-4"

\* the first entry of MODEL_PRICING whose name is a prefix of the model,
\* gpt-4o's prices when there is none
calculate_cost(model, prompt_tokens, completion_tokens) ==
    LET M == {i \in DOMAIN MODEL_PRICING : StartsWith(model, MODEL_PRICING[i].name)}
        pricing == IF M = {} THEN MODEL_PRICING[1]
                   ELSE MODEL_PRICING[CHOOSE i \in M : \A j \in M : i <= j]
    IN prompt_tokens * pricing.input + completion_tokens * pricing.output

\* ---------------------------------------------------------------------------
\* llm_gateway.py: LLMGateway
\* ---------------------------------------------------------------------------
RECURSIVE SumTokens(_)
SumTokens(rows) ==
    IF rows = << >> THEN 0 ELSE Head(rows).total_tokens + SumTokens(Tail(rows))

RECURSIVE SumCost(_)
SumCost(rows) ==
    IF rows = << >> THEN 0 ELSE Head(rows).cost_usd + SumCost(Tail(rows))

\* sums over the LLMUsage rows of the gateway's task
_get_task_usage(task, rows) ==
    IF task = "NONE"
    THEN [total_tokens |-> 0, total_cost |-> 0]
    ELSE [total_tokens |-> SumTokens(rows),
          total_cost   |-> SumCost(rows)]

\* today's cost of the user: the rows of earlier tasks plus this gateway's rows
_get_user_daily_usage(user, prior, rows) ==
    IF user = "NONE"
    THEN [total_cost |-> 0]
    ELSE [total_cost |-> prior + SumCost(rows)]

\* _check_budgets with the kinds of the two per-task caps exchanged
_check_budgets_swapped(purpose, counts, task, user, prior, rows) ==
    IF counts[purpose] >= get_model_config(purpose).max_calls_per_task
    THEN "cost_budget_exceeded"
    ELSE IF task # "NONE"
              /\ _get_task_usage(task, rows).total_tokens >= MAX_TOKENS_PER_TASK
    THEN "cost_budget_exceeded"
    ELSE IF task # "NONE"
              /\ _get_task_usage(task, rows).total_cost >= MAX_COST_PER_TASK_USD
    THEN "token_budget_exceeded"
    ELSE IF user # "NONE"
              /\ _get_user_daily_usage(user, prior, rows).total_cost
                    >= MAX_COST_PER_USER_PER_DAY_USD
    THEN "cost_budget_exceeded"
    ELSE "ok"

\* _check_budgets refusing only above the token cap, not at it
_check_budgets_strict(purpose, counts, task, user, prior, rows) ==
    IF counts[purpose] >= get_model_config(purpose).max_calls_per_task
    THEN "cost_budget_exceeded"
    ELSE IF task # "NONE"
              /\ _get_task_usage(task, rows).total_tokens > MAX_TOKENS_PER_TASK
    THEN "token_budget_exceeded"
    ELSE IF task # "NONE"
              /\ _get_task_usage(task, rows).total_cost >= MAX_COST_PER_TASK_USD
    THEN "cost_budget_exceeded"
    ELSE IF user # "NONE"
              /\ _get_user_daily_usage(user, prior, rows).total_cost
                    >= MAX_COST_PER_USER_PER_DAY_USD
    THEN "cost_budget_exceeded"
    ELSE "ok"

\* _check_budgets: "ok", or the kind of the ASAError it raises
_check_budgets(purpose, counts, task, user, prior, rows) ==
    IF counts[purpose] >= get_model_config(purpose).max_calls_per_task
    THEN "cost_budget_exceeded"
    ELSE IF task # "NONE"
              /\ _get_task_usage(task, rows).total_tokens >= MAX_TOKENS_PER_TASK
    THEN "token_budget_exceeded"
    ELSE IF task # "NONE"
              /\ _get_task_usage(task, rows).total_cost >= MAX_COST_PER_TASK_USD
    THEN "cost_budget_exceeded"
    ELSE IF user # "NONE"
              /\ _get_user_daily_usage(user, prior, rows).total_cost
                    >= MAX_COST_PER_USER_PER_DAY_USD
    THEN "cost_budget_exceeded"
    ELSE "ok"

\* the row _log_usage adds
LLMUsage(model, prompt_tokens, completion_tokens, total_tokens, cost, status) ==
    [model |-> model, prompt_tokens |-> prompt_tokens,
     completion_tokens |-> completion_tokens, total_tokens |-> total_tokens,
     cost_usd |-> cost, status |-> status]

\* _log_usage that writes the rows of successful invocations only
_log_usage_success_only(rows, row) ==
    IF row.status = "error" THEN rows ELSE Append(rows, row)

\* _log_usage that adds the row to the session and does not commit it
_log_usage_no_commit(rows, row) == rows

\* _log_usage: the row is added to the session and committed
_log_usage(rows, row) == Append(rows, row)

\* error_types of the with_retry decoration of chat_completion
GatewayErrorTypes ==
    {"llm_rate_limit", "llm_timeout", "network_timeout", "network_connection"}

\* with_retry's decision on an exception of the wrapped function:
\* "raise" (the exception propagates), "raise_KeyError" (building the
\* ASAError for a raw exception fails and the KeyError propagates),
\* "exhausted" (RetryExhausted) or "retry".
\* is_asa: the exception is an ASAError of kind k; else a raw exception
\* that classify_exception maps to k.
with_retry(error_types, is_asa, k, n) ==
    IF is_asa
    THEN IF error_types # {} /\ k \notin error_types THEN "raise"
         ELSE IF ~should_retry(k) THEN "raise"
         ELSE IF k \notin TaxonomyKinds THEN "raise"
         ELSE IF n >= ERROR_TAXONOMY(k).retry_policy.max_attempts THEN "exhausted"
         ELSE "retry"
    ELSE IF ASAErrorRaises(k, FALSE, {"exception_type"}) THEN "raise_KeyError"
         ELSE IF ~should_retry(k) THEN "raise"
         ELSE IF k \notin TaxonomyKinds
                  \/ n >= ERROR_TAXONOMY(k).retry_policy.max_attempts THEN "exhausted"
         ELSE "retry"

PromptTokens == {1, 2}

CompletionTokens == {0, 1}

ProviderOutcome(type, p, c, kind) ==
    [type |-> type, prompt_tokens |-> p, completion_tokens |-> c, kind |-> kind]

\* no invocation yet in the call in progress
NoResult == ProviderOutcome("none", 0, 0, "none")

\* what client.chat.completions.create can do: a response with its usage,
\* or one of the exceptions chat_completion distinguishes; kind is the
\* error type of the except branch: fixed for RateLimitError and
\* APITimeoutError, what classify_exception makes of the text otherwise
ProviderOutcomes ==
    {ProviderOutcome("ok", p, c, "none") : p \in PromptTokens, c \in CompletionTokens}
      \cup {ProviderOutcome("RateLimitError", 0, 0, "llm_rate_limit"),
            ProviderOutcome("APITimeoutError", 0, 0, "llm_timeout")}
      \cup {ProviderOutcome("APIError", 0, 0, k) :
                k \in {"network_connection", "llm_invalid_response", "sandbox_failed"}}
      \cup {ProviderOutcome("Exception", 0, 0, k) :
                k \in {"network_timeout", "sandbox_failed"}}

GatewayIdle ==
    /\ gw_task_id = "NONE"
    /\ gw_user_id = NoUser
    /\ prior_user_cost = 0
    /\ usage_records = << >>
    /\ _call_counts = [p \in Purposes |-> 0]
    /\ _total_tokens = 0
    /\ _total_cost = 0
    /\ attempt = 0
    /\ gw_pc = "idle"
    /\ gw_purpose = "none"
    /\ gw_result = "none"
    /\ provider_calls = 0
    /\ provider_result = NoResult

\* ---------------------------------------------------------------------------
\* patch_schema.py, patch_applicator.py
\* ---------------------------------------------------------------------------
Paths == {"f.py", "g.py", "missing.py"}

NoFile == <<"<absent>">>

PatchType == {"replace", "insert", "delete"}

CodePatch(file_path, patch_type, start_line, end_line, new_code) ==
    [file_path |-> file_path, patch_type |-> patch_type, start_line |-> start_line,
     end_line |-> end_line, new_code |-> new_code]

\* the workspace the applicator is given
Workspace ==
    [p \in Paths |-> CASE p = "f.py" -> <<"a", "b">>
                       [] p = "g.py" -> <<"c">>
                       [] OTHER -> NoFile]

\* _create_backup's backup_path: the file's name and directory with the
\* timestamp %Y%m%d_%H%M%S
BackupPaths == Paths \X (0..MaxClock)

_create_backup(file_path, timestamp) == <<file_path, timestamp>>

\* the patches of the model: line ranges within 1..2, one line of new code
\* for replace and insert, none for delete (CodePatch.__post_init__)
Patches ==
    {CodePatch(f, t, r[1], r[2], IF t = "delete" THEN << >> ELSE <<"X">>) :
        f \in Paths, t \in PatchType, r \in {<<1, 1>>, <<1, 2>>, <<2, 2>>}}

PatchSets == UNION {[1..n -> Patches] : n \in 0..MaxPatches}

\* validate_file accepting a range that starts on the line after the last one
_validate_patch_past_end(fs, patch) ==
    \/ fs[patch.file_path] = NoFile
    \/ patch.start_line > Len(fs[patch.file_path]) + 1

\* PatchValidator.validate_file (validate_syntax finds nothing in a CodePatch
\* that __post_init__ accepted): TRUE when there are errors
_validate_patch(fs, patch) ==
    \/ fs[patch.file_path] = NoFile
    \/ patch.start_line > Len(fs[patch.file_path])
    \/ patch.end_line > Len(fs[patch.file_path])

\* validate looking at the first patch of the set only
validate_first_only(fs, patches) ==
    patches # << >> /\ _validate_patch(fs, patches[1])

\* PatchSet.validate: TRUE when some patch has errors against the workspace
validate(fs, patches) == \E i \in DOMAIN patches : _validate_patch(fs, patches[i])

\* _apply_replace keeping the last replaced line
_apply_replace_keeps_last(lines, patch) ==
    SubSeq(lines, 1, patch.start_line - 1) \o patch.new_code
        \o SubSeq(lines, patch.end_line, Len(lines))

_apply_replace(lines, patch) ==
    SubSeq(lines, 1, patch.start_line - 1) \o patch.new_code
        \o SubSeq(lines, patch.end_line + 1, Len(lines))

_apply_insert(lines, patch) ==
    SubSeq(lines, 1, patch.start_line - 1) \o patch.new_code
        \o SubSeq(lines, patch.start_line, Len(lines))

_apply_delete(lines, patch) ==
    SubSeq(lines, 1, patch.start_line - 1) \o SubSeq(lines, patch.end_line + 1, Len(lines))

\* the new_lines of apply_patch
new_lines(lines, patch) ==
    CASE patch.patch_type = "replace" -> _apply_replace(lines, patch)
      [] patch.patch_type = "insert"  -> _apply_insert(lines, patch)
      [] patch.patch_type = "delete"  -> _apply_delete(lines, patch)

\* rollback's loop over reversed(applied_patches): every entry whose backup
\* exists is copied over its file
RECURSIVE restore(_, _, _)
restore(fs, backups, applied) ==
    IF applied = << >> THEN fs
    ELSE LET entry == applied[Len(applied)]
             rest  == SubSeq(applied, 1, Len(applied) - 1)
         IN IF backups[entry.backup_path] # NoFile
            THEN restore([fs EXCEPT ![entry.patch.file_path] = backups[entry.backup_path]],
                         backups, rest)
            ELSE restore(fs, backups, rest)

\* no push channel has been opened
PushIdle ==
    /\ ws_pc = "none"
    /\ ws_finals = 0

PatchIdle ==
    /\ files = Workspace
    /\ backup_files = [b \in BackupPaths |-> NoFile]
    /\ applied_patches = << >>
    /\ create_backups = TRUE
    /\ now = 0
    /\ patch_set = << >>
    /\ dry_run = FALSE
    /\ fail_fast = TRUE
    /\ patch_index = 0
    /\ results = [success |-> TRUE, applied |-> 0, failed |-> 0]
    /\ pa_pc = "idle"
    /\ original_files = Workspace
    /\ last_apply = [result |-> "none", file_path |-> "none"]

\* a wrapped operation: the raise statement it executes when it fails
\* (an ASAError of a kind with or without message, or an exception that
\* classify_exception maps to the kind) and whether it fails every time
Func(stmt, kind, has_message, always) ==
    [stmt |-> stmt, kind |-> kind, has_message |-> has_message, always |-> always]

NoFunc == Func("none", "none", FALSE, FALSE)

RetryIdle ==
    /\ rh_error_types = {}
    /\ rh_func = NoFunc
    /\ rh_attempt = 0
    /\ call_count = 0
    /\ rh_pc = "idle"
    /\ rh_result = "none"

OrchIdle ==
    /\ enable_cit = FALSE
    /\ current_state = "QUEUED"
    /\ state_history = << >>
    /\ retry_count = [s \in RetryStates |-> 0]
    /\ task_status = "QUEUED"
    /\ job_status = "queued"
    /\ job_cancelled = FALSE
    /\ pc = "queued"
    /\ last_signal = "none"
    /\ handler_result = "none"
    /\ cancel_at = [pc |-> "none", state |-> "none"]
    /\ task_exists = TRUE
    /\ job_exists = TRUE
    /\ ct_pc = "idle"
    /\ ct_status = "none"
    /\ ct_returned = "none"
    /\ probe = "none"

InitOrch ==
    /\ QueueIdle
    /\ PushIdle
    /\ PatchIdle
    /\ RetryIdle
    /\ GatewayIdle
    /\ enable_cit \in BOOLEAN
    /\ current_state = "QUEUED"
    /\ state_history = << >>
    /\ retry_count = [s \in RetryStates |-> 0]
    /\ task_status = "QUEUED"
    /\ job_status = "queued"
    /\ job_cancelled = FALSE
    /\ pc = "queued"
    /\ last_signal = "none"
    /\ handler_result = "none"
    /\ cancel_at = [pc |-> "none", state |-> "none"]
    /\ task_exists = TRUE
    /\ job_exists = TRUE
    /\ ct_pc = "idle"
    /\ ct_status = "none"
    /\ ct_returned = "none"
    /\ probe = "none"

\* RQ worker takes the job off the queue and calls run_task_job
WorkerDequeue ==
    /\ pc = "queued"
    /\ job_exists
    /\ job_status = "queued"
    /\ job_status' = "started"
    /\ pc' = "started"
    /\ UNCHANGED <<enable_cit, current_state, state_history, retry_count,
                   task_status, job_cancelled, last_signal, handler_result, cancel_at>>
    /\ UNCHANGED <<task_exists, job_exists, ct_pc, ct_status, ct_returned, probe>>
    /\ UNCHANGED <<queueVars, gwVars, rhVars, paVars, wsVars>>

\* TaskQueue.is_job_cancelled: FALSE for a job that Job.fetch does not find
is_job_cancelled(exists, cancelled) == exists /\ cancelled

\* run_task_job up to the call of orchestrator.run: the task is fetched (a
\* missing task returns at once) and the cancel flag is read once; a set
\* flag marks the task CANCELLED and returns
run_task_job ==
    /\ pc = "started"
    /\ IF ~task_exists
       THEN /\ task_status' = task_status
            /\ probe' = probe
            /\ pc' = "done"
       ELSE IF is_job_cancelled(job_exists, job_cancelled)
       THEN /\ task_status' = "CANCELLED"
            /\ probe' = "true"
            /\ pc' = "done"
       ELSE /\ task_status' = task_status
            /\ probe' = "false"
            /\ pc' = "run"
    /\ UNCHANGED <<enable_cit, current_state, state_history, retry_count,
                   job_status, job_cancelled, last_signal, handler_result, cancel_at>>
    /\ UNCHANGED <<task_exists, job_exists, ct_pc, ct_status, ct_returned>>
    /\ UNCHANGED <<queueVars, gwVars, rhVars, paVars, wsVars>>

\* AutonomousOrchestrator.run, entry: the task is loaded (a missing task
\* returns, and the job finishes); new StateMachine, transition("success")
RunStart ==
    /\ pc = "run"
    /\ IF ~task_exists
       THEN /\ pc' = "done"
            /\ job_status' = IF job_status = "started" THEN "finished"
                                                       ELSE job_status
            /\ UNCHANGED <<current_state, state_history, retry_count,
                           last_signal>>
       ELSE /\ LET r == transition(enable_cit, "QUEUED", << >>,
                                   [s \in RetryStates |-> 0], "success")
               IN /\ current_state' = r.current_state
                  /\ state_history' = r.state_history
                  /\ retry_count' = r.retry_count
                  /\ last_signal' = r.signal
            /\ pc' = "loop"
            /\ job_status' = job_status
    /\ UNCHANGED <<enable_cit, task_status, job_cancelled,
                   handler_result, cancel_at>>
    /\ UNCHANGED <<task_exists, job_exists, ct_pc, ct_status, ct_returned, probe>>
    /\ UNCHANGED <<queueVars, gwVars, rhVars, paVars, wsVars>>

\* loop test passed; _execute_state queries the task again and commits the
\* state to Task.status when the row is still there
EnterState ==
    /\ pc = "loop"
    /\ ~is_terminal(current_state)
    /\ Len(state_history) < MaxHistory
    /\ task_status' = IF task_exists THEN current_state ELSE task_status
    /\ pc' = "handler"
    /\ UNCHANGED <<enable_cit, current_state, state_history, retry_count,
                   job_status, job_cancelled, last_signal, handler_result, cancel_at>>
    /\ UNCHANGED <<task_exists, job_exists, ct_pc, ct_status, ct_returned, probe>>
    /\ UNCHANGED <<queueVars, gwVars, rhVars, paVars, wsVars>>

\* the rest of the loop body: the handler's outcome, transition(result), and
\* the except branch (transition("failure"), and on its ValueError the forced
\* FAILED status and the break). The forced status is written through the
\* Task object run() loaded at its entry: with the row deleted meanwhile the
\* commit raises, run() ends in run_task_job's handler, which finds no task
HandlerReturn(o) ==
    /\ pc = "handler"
    /\ o \in _execute_state(current_state)
    /\ LET r1 == IF o = "raise"
                 THEN [raised |-> TRUE, current_state |-> current_state,
                       state_history |-> state_history,
                       retry_count |-> retry_count, signal |-> last_signal]
                 ELSE transition(enable_cit, current_state, state_history,
                                 retry_count, o)
           r2 == IF r1.raised
                 THEN transition(enable_cit, current_state, r1.state_history,
                                 retry_count, "failure")
                 ELSE r1
       IN /\ current_state' = r2.current_state
          /\ state_history' = r2.state_history
          /\ retry_count' = r2.retry_count
          /\ last_signal' = r2.signal
          /\ handler_result' = o
          /\ IF r2.raised /\ task_exists
             THEN /\ task_status' = "FAILED"
                  /\ pc' = "forced"
                  /\ job_status' = job_status
             ELSE IF r2.raised
             THEN /\ task_status' = task_status
                  /\ pc' = "done"
                  /\ job_status' = IF job_status = "started" THEN "finished"
                                                             ELSE job_status
             ELSE /\ task_status' = task_status
                  /\ pc' = "loop"
                  /\ job_status' = job_status
    /\ UNCHANGED <<enable_cit, job_cancelled, cancel_at>>
    /\ UNCHANGED <<task_exists, job_exists, ct_pc, ct_status, ct_returned, probe>>
    /\ UNCHANGED <<queueVars, gwVars, rhVars, paVars, wsVars>>

\* after the loop: Task.status := the machine's current state, run returns
\* and the job finishes (with the row deleted the commit raises and nothing
\* is written)
RunFinish ==
    /\ \/ pc = "loop" /\ is_terminal(current_state)
       \/ pc = "forced"
    /\ task_status' = IF task_exists THEN current_state ELSE task_status
    /\ pc' = "done"
    /\ job_status' = IF job_status = "started" THEN "finished" ELSE job_status
    /\ UNCHANGED <<enable_cit, current_state, state_history, retry_count,
                   job_cancelled, last_signal, handler_result, cancel_at>>
    /\ UNCHANGED <<task_exists, job_exists, ct_pc, ct_status, ct_returned, probe>>
    /\ UNCHANGED <<queueVars, gwVars, rhVars, paVars, wsVars>>

\* cancel_task up to cancel_job's `status = job.get_status()`: the task is
\* found, the job is fetched and its status is read from Redis
cancel_job_get_status ==
    /\ ct_pc = "idle"
    /\ task_exists /\ job_exists
    /\ ct_status' = job_status
    /\ ct_pc' = "status_read"
    /\ UNCHANGED <<enable_cit, current_state, state_history, retry_count,
                   task_status, job_status, job_cancelled, pc, last_signal,
                   handler_result, cancel_at, task_exists, job_exists,
                   ct_returned, probe>>
    /\ UNCHANGED <<queueVars, gwVars, rhVars, paVars, wsVars>>

\* TaskQueue.cancel_job, after the status was read: on QUEUED job.cancel()
\* and True; on STARTED job.cancel(), the cancelled mark in the job's meta
\* and True; any other status is refused. job.cancel() sets the job's status
\* and takes it out of its queue; it does not stop a worker that runs it
cancel_job ==
    /\ ct_pc = "status_read"
    /\ IF ct_status \in {"queued", "started"}
       THEN /\ job_status' = "canceled"
            /\ job_cancelled' = (job_cancelled \/ ct_status = "started")
            /\ cancel_at' = IF ct_status = "started"
                            THEN [pc |-> pc, state |-> current_state]
                            ELSE cancel_at
            /\ ct_returned' = "true"
       ELSE /\ ct_returned' = "false"
            /\ UNCHANGED <<job_status, job_cancelled, cancel_at>>
    /\ ct_pc' = "cancelled"
    /\ UNCHANGED <<enable_cit, current_state, state_history, retry_count,
                   task_status, pc, last_signal, handler_result,
                   task_exists, job_exists, ct_status, probe>>
    /\ UNCHANGED <<queueVars, gwVars, rhVars, paVars, wsVars>>

\* cancel_task, after cancel_job: queue.get_job and job.delete()
cancel_task_job_delete ==
    /\ ct_pc = "cancelled"
    /\ job_exists' = FALSE
    /\ ct_pc' = "job_deleted"
    /\ UNCHANGED <<enable_cit, current_state, state_history, retry_count,
                   task_status, job_status, job_cancelled, pc, last_signal,
                   handler_result, cancel_at, task_exists, ct_status,
                   ct_returned, probe>>
    /\ UNCHANGED <<queueVars, gwVars, rhVars, paVars, wsVars>>

\* cancel_task, the end: db.delete(task) and the commit
cancel_task_db_delete ==
    /\ ct_pc = "job_deleted"
    /\ task_exists' = FALSE
    /\ ct_pc' = "done"
    /\ UNCHANGED <<enable_cit, current_state, state_history, retry_count,
                   task_status, job_status, job_cancelled, pc, last_signal,
                   handler_result, cancel_at, job_exists, ct_status,
                   ct_returned, probe>>
    /\ UNCHANGED <<queueVars, gwVars, rhVars, paVars, wsVars>>

NextOrch ==
    \/ WorkerDequeue
    \/ run_task_job
    \/ RunStart
    \/ EnterState
    \/ \E o \in TransitionCondition \cup {"raise"} : HandlerReturn(o)
    \/ RunFinish
    \/ cancel_job_get_status
    \/ cancel_job
    \/ cancel_task_job_delete
    \/ cancel_task_db_delete

SpecOrch == InitOrch /\ [][NextOrch]_vars

\* ---------------------------------------------------------------------------
\* Properties of the orchestrator (SpecOrch)
\* ---------------------------------------------------------------------------
HasRow(cit, s, sig, t) ==
    \E i \in DOMAIN _define_transitions(cit) :
        LET row == _define_transitions(cit)[i]
        IN row.from_state = s /\ row.condition = sig /\ row.to_state = t

\* C1: every change of the state machine's current state from s to t follows
\* a row (s, signal, t) of the transition table for the signal that was emitted.
C1_OnlyTableEdges ==
    [][ current_state' # current_state
          => HasRow(enable_cit, current_state, last_signal', current_state') ]_vars

TerminalStatus == {"COMPLETED", "FAILED", "TIMEOUT", "CANCELLED"}

\* C2: whenever AutonomousOrchestrator.run has returned, the persisted
\* Task.status is one of COMPLETED, FAILED, TIMEOUT, CANCELLED (stated for
\* the runs whose last handler returned a signal; it is claimed for the
\* runs whose handler raised as well).
C2_FinalStatusTerminal ==
    (pc = "done" /\ handler_result # "raise" /\ task_exists /\ ct_pc = "idle")
        => task_status \in TerminalStatus

GFEntries ==
    {i \in DOMAIN state_history : state_history[i].state = "GENERATING_FIX"}

\* C3: when GENERATING_FIX fails on every attempt, it is entered at most
\* 1 + 2 times (one entry plus max_retries re-entries).
C3_FixEntriesBounded ==
    (\A i \in GFEntries : state_history[i].result \in {"none", "failure"})
        => Cardinality(GFEntries) <= 1 + max_retries("GENERATING_FIX")

\* the signal the exited state emitted, as recorded in its history entry
ExitSignal == state_history'[Len(state_history)].result

\* C4: when the state being exited emits a signal whose row leads to RETRY,
\* that state's own counter is consulted and incremented and that state is
\* re-entered; with its counter at max the task moves to FAILED.
C4_RetryUsesOwnCounter ==
    [][ ( /\ pc = "handler" /\ pc' = "loop"
          /\ HasRow(enable_cit, current_state, ExitSignal, "RETRY") )
        => IF can_retry(retry_count, current_state)
           THEN /\ current_state' = current_state
                /\ retry_count' = [retry_count EXCEPT ![current_state] = @ + 1]
           ELSE /\ current_state' = "FAILED"
                /\ retry_count' = retry_count ]_vars

\* C5: when the cancel flag is set while the orchestrator is executing a
\* non-terminal state, the task's final status is CANCELLED.
C5_CancelledWhenFlagged ==
    ( /\ pc = "done"
      /\ task_exists /\ job_exists
      /\ is_terminal(current_state)
      /\ cancel_at.pc \in {"loop", "handler"}
      /\ ~is_terminal(cancel_at.state) )
        => task_status = "CANCELLED"

\* the cancelled mark was written to the meta of the job while it was started
FlagWasSet == cancel_at.pc # "none"

\* C16: once a cancel request has set the cancel flag of a running job, every
\* later is_job_cancelled probe the worker makes for that job returns true.
C16_FlagStaysObservable ==
    [][ (pc = "started" /\ pc' # "started" /\ task_exists /\ FlagWasSet)
          => probe' = "true" ]_vars

\* C17: whenever cancel_job has returned True, either the job was taken off
\* the queue and is never started by a worker, or its cancel flag is set;
\* also when a worker dequeues the job while cancel_job is running.
C17_CancelTrueMeansStoppedOrFlagged ==
    ct_returned = "true" => (pc = "queued" \/ job_cancelled)

\* C19: run_task_job invoked for a task that is missing or already terminal
\* executes no pipeline state and leaves the status as it is, and a status
\* that has reached a terminal value never changes again.
C19_TerminalStatusIsFinal ==
    [][ /\ ( (pc = "started" /\ pc' # "started"
                /\ (~task_exists \/ task_status \in TerminalStatus))
              => (pc' = "done" /\ task_status' = task_status) )
        /\ ( task_status \in TerminalStatus => task_status' = task_status )
      ]_vars

\* the history entries of a state
EntriesOf(st) == {i \in DOMAIN state_history : state_history[i].state = st}

\* RUNNING_TESTS_AFTER_FIX has signalled tests_fail on every run so far
AlwaysTestsFail ==
    /\ EntriesOf("RUNNING_TESTS_AFTER_FIX") # {}
    /\ \A i \in EntriesOf("RUNNING_TESTS_AFTER_FIX") :
           state_history[i].result \in {"none", "tests_fail"}

\* C21: when RUNNING_TESTS_AFTER_FIX signals tests_fail on every run, the
\* history shows RUNNING_TESTS_AFTER_FIX and RETRY alternating until the
\* counter of RUNNING_TESTS_AFTER_FIX is at its max (1), and then the task's
\* final status is FAILED.
C21_TestsFailAlternatesWithRetry ==
    AlwaysTestsFail =>
        /\ \A i \in EntriesOf("RUNNING_TESTS_AFTER_FIX") :
              (state_history[i].result = "tests_fail" /\ i < Len(state_history))
                => state_history[i + 1].state \in {"RETRY", "FAILED"}
        /\ Cardinality(EntriesOf("RUNNING_TESTS_AFTER_FIX"))
              <= 1 + max_retries("RUNNING_TESTS_AFTER_FIX")
        /\ (pc = "done" /\ task_exists /\ ct_pc = "idle"
              /\ handler_result # "raise") => task_status = "FAILED"

\* the signals with which a state's effect has succeeded (tests failing before
\* the fix, passing after it)
GoodSignals(st) ==
    CASE st = "VERIFYING_BUG_BEHAVIOR"   -> {"bug_confirmed", "bug_not_found"}
      [] st = "RUNNING_TESTS_BEFORE_FIX" -> {"tests_fail"}
      [] st = "RUNNING_TESTS_AFTER_FIX"  -> {"tests_pass"}
      [] st = "VERIFYING_FIX_BEHAVIOR"   -> {"fix_validated", "fix_invalid"}
      [] OTHER                           -> {"success"}

FirstFix == CHOOSE i \in EntriesOf("GENERATING_FIX") :
                \A j \in EntriesOf("GENERATING_FIX") : i <= j

\* a finished run, not cancelled, in which the first GENERATING_FIX failed and
\* every other effect succeeded
FirstFixFailsOnly ==
    /\ pc = "done" /\ task_exists /\ ct_pc = "idle"
    /\ EntriesOf("GENERATING_FIX") # {}
    /\ state_history[FirstFix].result = "failure"
    /\ \A i \in DOMAIN state_history \ {FirstFix} :
          IF i < Len(state_history)
          THEN state_history[i].result \in GoodSignals(state_history[i].state)
          ELSE state_history[i].result = "none"

\* C22: when the first GENERATING_FIX effect raises and the second succeeds,
\* all other effects succeeding with the tests passing after the fix, the
\* history holds GENERATING_FIX exactly twice and RETRY exactly once, and the
\* final status is COMPLETED.
C22_OneRetryThenCompleted ==
    FirstFixFailsOnly =>
        /\ Cardinality(EntriesOf("GENERATING_FIX")) = 2
        /\ Cardinality(EntriesOf("RETRY")) = 1
        /\ current_state = "COMPLETED"
        /\ task_status = "COMPLETED"

C22_Witness ==
    /\ FirstFixFailsOnly
    /\ handler_result = "success"
    /\ job_status = "finished"

\* C30: once the handler of CREATING_PR_BRANCH has ended, by returning
\* success, by returning failure or by an exception escaping _execute_state,
\* the machine is in COMPLETED, the task's status is not FAILED, and when
\* the run has ended (the row still there, no cancel request under way) the
\* status is COMPLETED.
C30_PRFailureStillCompleted ==
    \A i \in EntriesOf("CREATING_PR_BRANCH") :
        state_history[i].result # "none" =>
            /\ state_history[i].result \in {"success", "failure"}
            /\ i < Len(state_history)
            /\ state_history[i + 1].state = "COMPLETED"
            /\ current_state = "COMPLETED"
            /\ task_status # "FAILED"
            /\ (pc = "done" /\ task_exists /\ ct_pc = "idle")
                  => task_status = "COMPLETED"

\* the PR step raised, and the run ended with the task COMPLETED
C30_Witness ==
    /\ pc = "done"
    /\ Len(state_history) >= 2
    /\ handler_result = "raise"
    /\ state_history[Len(state_history) - 1].state = "CREATING_PR_BRANCH"
    /\ state_history[Len(state_history) - 1].result = "failure"
    /\ current_state = "COMPLETED"
    /\ task_status = "COMPLETED"

\* the last entry into GENERATING_FIX, 0 when there is none
LastFix ==
    IF EntriesOf("GENERATING_FIX") = {} THEN 0
    ELSE CHOOSE i \in EntriesOf("GENERATING_FIX") :
            \A j \in EntriesOf("GENERATING_FIX") : j <= i

\* C35: when the machine is in COMPLETED, or the task's status is COMPLETED,
\* GENERATING_FIX was entered and, after its last entry, an entry of
\* RUNNING_TESTS_AFTER_FIX ended with tests_pass.
C35_CompletedOnlyAfterPassingTests ==
    (current_state = "COMPLETED" \/ task_status = "COMPLETED") =>
        /\ LastFix > 0
        /\ \E j \in EntriesOf("RUNNING_TESTS_AFTER_FIX") :
              /\ j > LastFix
              /\ state_history[j].result = "tests_pass"

\* a run that went through fix generation more than once ended COMPLETED
C35_Witness ==
    /\ pc = "done"
    /\ current_state = "COMPLETED"
    /\ task_status = "COMPLETED"
    /\ Cardinality(EntriesOf("GENERATING_FIX")) >= 2
    /\ \E i \in EntriesOf("RUNNING_TESTS_AFTER_FIX") :
          state_history[i].result = "tests_fail"

\* ---------------------------------------------------------------------------
\* state_machine.py: a StateMachine driven by any caller, one transition(result)
\* per step, in every state of the machine, the terminal ones included
\* ---------------------------------------------------------------------------
InitMachine ==
    /\ InitOrch

\* StateMachine.transition(result) called on the machine: on ValueError the
\* machine keeps its state (last_signal records the exception), the exit
\* record of the last history entry is written in both cases
transition_call(result) ==
    /\ Len(state_history) < MaxHistory
    /\ LET r == transition(enable_cit, current_state, state_history, retry_count, result)
       IN /\ current_state' = r.current_state
          /\ state_history' = r.state_history
          /\ retry_count' = r.retry_count
          /\ last_signal' = IF r.raised THEN "ValueError" ELSE r.signal
    /\ UNCHANGED <<enable_cit, task_status, job_status, job_cancelled, pc,
                   handler_result, cancel_at>>
    /\ UNCHANGED <<task_exists, job_exists, ct_pc, ct_status, ct_returned, probe>>
    /\ UNCHANGED <<queueVars, gwVars, rhVars, paVars, wsVars>>

NextMachine ==
    \E result \in TransitionCondition : transition_call(result)

SpecMachine == InitMachine /\ [][NextMachine]_vars

\* C29: COMPLETED, FAILED and TIMEOUT are absorbing: a machine in one of
\* them (whatever its history and counters) raises for every signal, and
\* once the current state is one of them no step changes it, appends to the
\* history or touches a retry counter.
C29_TerminalAbsorbing ==
    [][ /\ \A s \in {"COMPLETED", "FAILED", "TIMEOUT"}, result \in TransitionCondition :
               /\ is_terminal(s)
               /\ transition(enable_cit, s, state_history, retry_count, result).raised
        /\ is_terminal(current_state) =>
              /\ current_state' = current_state
              /\ Len(state_history') = Len(state_history)
              /\ retry_count' = retry_count
              /\ last_signal' = "ValueError" ]_vars

\* a signal was sent to the machine in a terminal state and was rejected
C29_Witness ==
    /\ is_terminal(current_state)
    /\ last_signal = "ValueError"
    /\ state_history[Len(state_history)].state = current_state
    /\ state_history[Len(state_history)].result # "none"

\* C33: a transition call that is rejected (the signal has no row for the
\* current state) leaves the machine as it was: the current state, the retry
\* counters, and the history with the recorded outcome of every entry.
C33_RejectedSignalChangesNothing ==
    [][ (\E result \in TransitionCondition :
            /\ FirstMatch(enable_cit, current_state, result) = 0
            /\ last_signal' = "ValueError"
            /\ state_history' = transition(enable_cit, current_state, state_history,
                                           retry_count, result).state_history)
          => /\ current_state' = current_state
             /\ retry_count' = retry_count
             /\ state_history' = state_history ]_vars

\* C34: once transition has been called, the history has one entry per
\* state visited, in visiting order: its first entry is for QUEUED and its
\* last entry for the current state; a
\* step only appends, one entry for the state entered by an accepted
\* transition and none for a rejected one.
C34_HistoryOneEntryPerVisit ==
    /\ [](last_signal # "none" =>
            /\ Len(state_history) >= 1
            /\ state_history[1].state = "QUEUED"
            /\ state_history[Len(state_history)].state = current_state)
    /\ [][ /\ Len(state_history') \in {Len(state_history), Len(state_history) + 1}
           /\ \A i \in DOMAIN state_history :
                 state_history'[i].state = state_history[i].state
           /\ (Len(state_history') = Len(state_history) + 1)
                 <=> (last_signal' # "ValueError") ]_vars

\* the entry before i was left through the retry path: by a signal whose row
\* leads to RETRY, or it is an entry of the RETRY state itself
LeftByRetry(i) ==
    \/ state_history[i].state = "RETRY"
    \/ state_history[i].state = "GENERATING_FIX" /\ state_history[i].result = "failure"
    \/ state_history[i].state = "RUNNING_TESTS_AFTER_FIX"
          /\ state_history[i].result = "tests_fail"

\* number of entries of s that follow an entry left through the retry path
Reentries(s) ==
    Cardinality({i \in DOMAIN state_history :
                    i > 1 /\ state_history[i].state = s /\ LeftByRetry(i - 1)})

\* C37: the retry counter of each retry-eligible state is between 0 and its
\* max_retries, equals the number of times the state was re-entered through
\* the retry path, and no step decreases it.
C37_RetryCounterCountsReentries ==
    /\ [](\A s \in RetryStates :
            /\ 0 <= retry_count[s]
            /\ retry_count[s] <= max_retries(s)
            /\ Reentries(s) = retry_count[s])
    /\ [][\A s \in RetryStates : retry_count'[s] >= retry_count[s]]_vars

\* C38: TIMEOUT is reached by the timeout signal: a transition call with the
\* signal timeout (the exit record of the state being left holds it) made in
\* a running state, one that is neither QUEUED nor terminal, leaves the
\* machine in TIMEOUT.
C38_TimeoutSignalLeadsToTimeout ==
    [][ (/\ Len(state_history) >= 1
         /\ ~is_terminal(current_state)
         /\ state_history[Len(state_history)].state = current_state
         /\ state_history'[Len(state_history)].result = "timeout")
          => current_state' = "TIMEOUT" ]_vars

\* ---------------------------------------------------------------------------
\* api/v1/task.py: submit_task, with queue.py: enqueue_task, and the RQ workers
\* ---------------------------------------------------------------------------
InitQueue ==
    /\ OrchIdle
    /\ QueueIdle
    /\ PushIdle
    /\ PatchIdle
    /\ RetryIdle
    /\ GatewayIdle

Task(user_id, status, job_id) == [user_id |-> user_id, status |-> status, job_id |-> job_id]

\* submit_task up to the insert of the Task row: the admission check of the
\* endpoint, answered 429 when it denies, else the row is committed as QUEUED
submit_task(r, u) ==
    /\ req[r].pc = "idle"
    /\ IF can_enqueue(default_queue, worker_job, u)
       THEN /\ task_rows' = Append(task_rows, Task(u, "QUEUED", 0))
            /\ req' = [req EXCEPT ![r] = [pc |-> "created", user_id |-> u,
                                          task_id |-> Len(task_rows) + 1]]
       ELSE /\ task_rows' = task_rows
            /\ req' = [req EXCEPT ![r] = [pc |-> "rejected_429", user_id |-> u,
                                          task_id |-> 0]]
    /\ UNCHANGED <<default_queue, high_priority_queue, worker_job>>
    /\ UNCHANGED <<orchVars, gwVars, rhVars, paVars, wsVars>>

\* enqueue_task, its own admission check; a denial returns None and
\* submit_task marks the committed row FAILED and answers 500
enqueue_task_check(r) ==
    /\ req[r].pc = "created"
    /\ IF can_enqueue(default_queue, worker_job, req[r].user_id)
       THEN /\ req' = [req EXCEPT ![r].pc = "admitted"]
            /\ task_rows' = task_rows
       ELSE /\ req' = [req EXCEPT ![r].pc = "failed_500"]
            /\ task_rows' = [task_rows EXCEPT ![req[r].task_id].status = "FAILED"]
    /\ UNCHANGED <<default_queue, high_priority_queue, worker_job>>
    /\ UNCHANGED <<orchVars, gwVars, rhVars, paVars, wsVars>>

\* enqueue_task after the check: the job is pushed on the selected queue
\* (submit_task passes no high_priority, so the default queue), and
\* submit_task stores the job id on the row and answers 201
enqueue_task_push(r, high_priority) ==
    /\ req[r].pc = "admitted"
    /\ LET job == [task_id |-> req[r].task_id, user_id |-> req[r].user_id]
       IN IF high_priority
          THEN /\ high_priority_queue' = Append(high_priority_queue, job)
               /\ default_queue' = default_queue
          ELSE /\ default_queue' = Append(default_queue, job)
               /\ high_priority_queue' = high_priority_queue
    /\ task_rows' = [task_rows EXCEPT ![req[r].task_id].job_id = req[r].task_id]
    /\ req' = [req EXCEPT ![r].pc = "accepted_201"]
    /\ UNCHANGED worker_job
    /\ UNCHANGED <<orchVars, gwVars, rhVars, paVars, wsVars>>

\* an idle worker takes the oldest job of the queue it listens on
WorkerTake(w) ==
    /\ worker_job[w] = NoJob
    /\ default_queue # << >>
    /\ worker_job' = [worker_job EXCEPT ![w] = Head(default_queue)]
    /\ default_queue' = Tail(default_queue)
    /\ UNCHANGED <<high_priority_queue, task_rows, req>>
    /\ UNCHANGED <<orchVars, gwVars, rhVars, paVars, wsVars>>

\* the worker's job returns
WorkerDone(w) ==
    /\ worker_job[w] # NoJob
    /\ worker_job' = [worker_job EXCEPT ![w] = NoJob]
    /\ UNCHANGED <<default_queue, high_priority_queue, task_rows, req>>
    /\ UNCHANGED <<orchVars, gwVars, rhVars, paVars, wsVars>>

NextQueue ==
    \/ \E r \in Requests, u \in Users \cup {NoUser} : submit_task(r, u)
    \/ \E r \in Requests : enqueue_task_check(r)
    \/ \E r \in Requests : enqueue_task_push(r, FALSE)
    \/ \E w \in Workers : WorkerTake(w)
    \/ \E w \in Workers : WorkerDone(w)

SpecQueue == InitQueue /\ [][NextQueue]_vars

\* ---------------------------------------------------------------------------
\* Properties of admission (SpecQueue)
\* ---------------------------------------------------------------------------
\* C6: at every moment the number of queued jobs, both priority classes
\* together, is at most MAX_QUEUE_SIZE.
C6_QueueBounded ==
    Len(default_queue) + Len(high_priority_queue) <= MAX_QUEUE_SIZE

\* C18: at every moment the number of jobs being executed by workers is at
\* most MAX_CONCURRENT_JOBS, whatever the number of workers and the queue.
C18_RunningBounded ==
    get_active_jobs_count(worker_job) <= MAX_CONCURRENT_JOBS

\* jobs of a principal that are running or queued, in either queue
ActiveOf(u) ==
    Cardinality({w \in Workers : worker_job[w] # NoJob /\ worker_job[w].user_id = u})
      + QueuedOf(default_queue, u)
      + QueuedOf(high_priority_queue, u)

\* C7: when a task of principal P has been admitted, P's running or queued
\* jobs, the new one counted, do not exceed MAX_PER_USER_CONCURRENT.
C7_PerUserBounded ==
    [][ \A r \in Requests :
          (req[r].pc = "admitted" /\ req'[r].pc = "accepted_201"
             /\ req[r].user_id # NoUser)
            => ActiveOf(req[r].user_id)' <= MAX_PER_USER_CONCURRENT ]_vars

\* C8: a submission that was denied admission, by the endpoint's check or by
\* enqueue_task's own check, has persisted no Task row.
C8_DeniedPersistsNothing ==
    \A r \in Requests :
        req[r].pc \in {"rejected_429", "failed_500"} => req[r].task_id = 0

\* number of jobs waiting in the queues
QueuedJobs == Len(default_queue) + Len(high_priority_queue)

\* fewer jobs are running than MAX_CONCURRENT_JOBS, and the principal (when
\* there is one) has fewer running or queued jobs than MAX_PER_USER_CONCURRENT
GatesOpen(u) ==
    /\ Cardinality({w \in Workers : worker_job[w] # NoJob}) < MAX_CONCURRENT_JOBS
    /\ (u # NoUser => ActiveOf(u) < MAX_PER_USER_CONCURRENT)

\* C27: an admission check (the endpoint's, or enqueue_task's own) made while
\* exactly MAX_QUEUE_SIZE jobs are queued denies, and one made while
\* MAX_QUEUE_SIZE - 1 jobs are queued and the concurrency and per-user gates
\* are open admits.
C27_AdmissionBoundary ==
    [][ \A r \in Requests :
          /\ (req[r].pc = "idle" /\ req'[r].pc # "idle") =>
                /\ (QueuedJobs = MAX_QUEUE_SIZE => req'[r].pc = "rejected_429")
                /\ (QueuedJobs = MAX_QUEUE_SIZE - 1 /\ GatesOpen(req'[r].user_id)
                      => req'[r].pc = "created")
          /\ (req[r].pc = "created" /\ req'[r].pc # "created") =>
                /\ (QueuedJobs = MAX_QUEUE_SIZE => req'[r].pc = "failed_500")
                /\ (QueuedJobs = MAX_QUEUE_SIZE - 1 /\ GatesOpen(req[r].user_id)
                      => req'[r].pc = "admitted") ]_vars

\* the queue was filled one admission at a time and the next submission
\* was answered 429
C27_Witness ==
    /\ QueuedJobs = MAX_QUEUE_SIZE
    /\ \A w \in Workers : worker_job[w] = NoJob
    /\ Len(task_rows) = MAX_QUEUE_SIZE
    /\ Cardinality({r \in Requests : req[r].pc = "accepted_201"}) = MAX_QUEUE_SIZE
    /\ \E r \in Requests : req[r].pc = "rejected_429"

\* ---------------------------------------------------------------------------
\* llm_gateway.py: chat_completion under its with_retry wrapper
\* ---------------------------------------------------------------------------
InitGateway ==
    /\ OrchIdle
    /\ QueueIdle
    /\ PushIdle
    /\ PatchIdle
    /\ RetryIdle
    /\ gw_task_id \in {"task-1", "NONE"}
    /\ gw_user_id \in {"alice", NoUser}
    /\ prior_user_cost \in {0, 2000}
    /\ usage_records = << >>
    /\ _call_counts = [p \in Purposes |-> 0]
    /\ _total_tokens = 0
    /\ _total_cost = 0
    /\ attempt = 0
    /\ gw_pc = "idle"
    /\ gw_purpose = "none"
    /\ gw_result = "none"
    /\ provider_calls = 0
    /\ provider_result = NoResult

\* a consumer calls chat_completion(purpose): the wrapper starts with attempt = 0
CallStart(purpose) ==
    /\ gw_pc = "idle"
    /\ Len(usage_records) < MaxRecords
    /\ gw_pc' = "attempt"
    /\ gw_purpose' = purpose
    /\ attempt' = 0
    /\ gw_result' = "none"
    /\ provider_result' = NoResult
    /\ UNCHANGED <<gw_task_id, gw_user_id, prior_user_cost, usage_records,
                   _call_counts, _total_tokens, _total_cost, provider_calls>>
    /\ UNCHANGED <<orchVars, queueVars, rhVars, paVars, wsVars>>

\* one pass of the wrapper's loop: attempt += 1 and chat_completion's body;
\* the budget check, then the provider call with outcome o, the usage row,
\* and the wrapper's decision on the exception, if any
chat_completion(o) ==
    /\ gw_pc = "attempt"
    /\ Len(usage_records) < MaxRecords
    /\ LET n      == attempt + 1
           config == get_model_config(gw_purpose)
           budget == _check_budgets(gw_purpose, _call_counts, gw_task_id,
                                    gw_user_id, prior_user_cost, usage_records)
           cost   == calculate_cost(config.model, o.prompt_tokens, o.completion_tokens)
           row    == IF o.type = "ok"
                     THEN LLMUsage(config.model, o.prompt_tokens, o.completion_tokens,
                                   o.prompt_tokens + o.completion_tokens, cost, "success")
                     ELSE LLMUsage(config.model, 0, 0, 0, 0, "error")
           \* the exception that leaves chat_completion's body: the budget
           \* error, the raw exception, or the ASAError built in the except
           \* branch (a KeyError when building it fails)
           built  == o.type \in {"RateLimitError", "APITimeoutError", "APIError"}
           broken == IF budget # "ok"
                     THEN ASAErrorRaises(budget, FALSE, {})
                     ELSE built /\ ASAErrorRaises(o.kind, FALSE, {})
           is_asa == (budget # "ok" \/ built) /\ ~broken
           kind   == IF budget # "ok" THEN budget
                     ELSE IF broken THEN ClassifyKeyError
                     ELSE o.kind
           verdict == with_retry(GatewayErrorTypes, is_asa, kind, n)
       IN /\ attempt' = n
          /\ IF budget # "ok"
             THEN /\ provider_calls' = provider_calls
                  /\ provider_result' = provider_result
                  /\ usage_records' = usage_records
                  /\ _call_counts' = _call_counts
                  /\ UNCHANGED <<_total_tokens, _total_cost>>
             ELSE /\ provider_calls' = provider_calls + 1
                  /\ provider_result' = o
                  /\ usage_records' = _log_usage(usage_records, row)
                  /\ _call_counts' = IF o.type = "ok"
                                     THEN [_call_counts EXCEPT ![gw_purpose] = @ + 1]
                                     ELSE _call_counts
                  /\ _total_tokens' = IF o.type = "ok"
                                      THEN _total_tokens + o.prompt_tokens
                                             + o.completion_tokens
                                      ELSE _total_tokens
                  /\ _total_cost' = IF o.type = "ok" THEN _total_cost + cost
                                                     ELSE _total_cost
          /\ IF budget = "ok" /\ o.type = "ok"
             THEN gw_pc' = "idle" /\ gw_result' = "ok"
             ELSE CASE verdict = "retry"     -> gw_pc' = "attempt" /\ gw_result' = "none"
                    [] verdict = "exhausted" -> gw_pc' = "idle" /\ gw_result' = "RetryExhausted"
                    [] verdict = "raise_KeyError" -> gw_pc' = "idle" /\ gw_result' = "KeyError"
                    [] verdict = "raise"     ->
                         /\ gw_pc' = "idle"
                         /\ gw_result' = IF is_asa THEN kind
                                         ELSE IF broken THEN "KeyError"
                                         ELSE "Exception"
    /\ UNCHANGED <<gw_task_id, gw_user_id, prior_user_cost, gw_purpose>>
    /\ UNCHANGED <<orchVars, queueVars, rhVars, paVars, wsVars>>

NextGateway ==
    \/ \E purpose \in Purposes : CallStart(purpose)
    \/ \E o \in ProviderOutcomes : chat_completion(o)

SpecGateway == InitGateway /\ [][NextGateway]_vars

\* C9: whenever the gateway serves a task, the tokens of the task's usage
\* rows sum to at most MAX_TOKENS_PER_TASK and their cost to at most
\* MAX_COST_PER_TASK_USD, whatever the sizes of the calls.
C9_UsageWithinBudget ==
    gw_task_id # "NONE" =>
        /\ SumTokens(usage_records) <= MAX_TOKENS_PER_TASK
        /\ SumCost(usage_records) <= MAX_COST_PER_TASK_USD

\* the limits an attempt's budget check finds reached
CallCapHit ==
    gw_purpose \in Purposes /\ _call_counts[gw_purpose] >= MaxCallsPerTask

TokenCapHit ==
    gw_task_id # "NONE" /\ SumTokens(usage_records) >= MAX_TOKENS_PER_TASK

CostCapHit ==
    gw_task_id # "NONE" /\ SumCost(usage_records) >= MAX_COST_PER_TASK_USD

DailyCapHit ==
    gw_user_id # NoUser
      /\ prior_user_cost + SumCost(usage_records) >= MAX_COST_PER_USER_PER_DAY_USD

\* C10: an attempt whose budget check fails ends the call with a structured
\* error of category resource, token_budget_exceeded only for the token cap
\* and for the token cap alone nothing else, cost_budget_exceeded only for a
\* call, cost or daily cap; the provider is not invoked, no usage row is
\* added, and the wrapper does not go round again.
C10_BudgetFailureStopsCall ==
    [][ (gw_pc = "attempt" /\ (CallCapHit \/ TokenCapHit \/ CostCapHit \/ DailyCapHit))
          => /\ provider_calls' = provider_calls
             /\ usage_records' = usage_records
             /\ gw_pc' = "idle"
             /\ attempt' = attempt + 1
             /\ gw_result' \in {"token_budget_exceeded", "cost_budget_exceeded"}
             /\ ERROR_TAXONOMY(gw_result').category = "resource"
             /\ (gw_result' = "token_budget_exceeded" => TokenCapHit)
             /\ (gw_result' = "cost_budget_exceeded"
                    => (CallCapHit \/ CostCapHit \/ DailyCapHit))
             /\ ((TokenCapHit /\ ~CallCapHit /\ ~CostCapHit /\ ~DailyCapHit)
                    => gw_result' = "token_budget_exceeded") ]_vars

\* a call stopped at its first attempt by the token cap alone, after earlier
\* provider calls of the same gateway
C10_Witness ==
    /\ gw_pc = "idle"
    /\ gw_result = "token_budget_exceeded"
    /\ attempt = 1
    /\ provider_calls > 0
    /\ TokenCapHit /\ ~CostCapHit /\ ~CallCapHit /\ ~DailyCapHit

TransientFailure(r) ==
    \/ r.type = "RateLimitError"
    \/ r.type = "APITimeoutError"
    \/ r.type = "APIError" /\ r.kind = "network_connection"

\* C12: after an invocation that failed with a transient kind,
\* chat_completion goes round again while the invocations of the call are
\* fewer than the kind's max_attempts, and raises RetryExhausted when they
\* have reached it.
C12_TransientRetriedUntilExhausted ==
    [][ (provider_calls' = provider_calls + 1 /\ TransientFailure(provider_result'))
          => IF attempt' < ERROR_TAXONOMY(provider_result'.kind).retry_policy.max_attempts
             THEN gw_pc' = "attempt"
             ELSE gw_pc' = "idle" /\ gw_result' = "RetryExhausted" ]_vars

\* C23, as claimed: a call that brings the task's tokens exactly to
\* MAX_TOKENS_PER_TASK succeeds, and every later call for the task fails with
\* token_budget_exceeded before the provider is invoked.
C23_AtCapThenTokenError ==
    [][ (gw_pc = "attempt" /\ gw_task_id # "NONE")
          => /\ ( ( provider_calls' # provider_calls
                     /\ provider_result'.type = "ok"
                     /\ SumTokens(usage_records') = MAX_TOKENS_PER_TASK )
                   => (gw_pc' = "idle" /\ gw_result' = "ok") )
             /\ ( SumTokens(usage_records) = MAX_TOKENS_PER_TASK
                   => /\ provider_calls' = provider_calls
                      /\ gw_pc' = "idle"
                      /\ gw_result' = "token_budget_exceeded" ) ]_vars

\* C23, amended: a call that brings the task's tokens exactly to
\* MAX_TOKENS_PER_TASK succeeds, and every later call for the task fails
\* before the provider is invoked: with cost_budget_exceeded when the call cap
\* of its purpose is reached on the gateway, with token_budget_exceeded
\* otherwise.
C23_AtCapThenBudgetError ==
    [][ (gw_pc = "attempt" /\ gw_task_id # "NONE")
          => /\ ( ( provider_calls' # provider_calls
                     /\ provider_result'.type = "ok"
                     /\ SumTokens(usage_records') = MAX_TOKENS_PER_TASK )
                   => (gw_pc' = "idle" /\ gw_result' = "ok") )
             /\ ( SumTokens(usage_records) = MAX_TOKENS_PER_TASK
                   => /\ provider_calls' = provider_calls
                      /\ gw_pc' = "idle"
                      /\ gw_result' = IF CallCapHit THEN "cost_budget_exceeded"
                                      ELSE "token_budget_exceeded" ) ]_vars

\* a call refused for the tokens right after the call that reached the cap
\* exactly and succeeded
C23_Witness ==
    /\ gw_pc = "idle"
    /\ gw_task_id # "NONE"
    /\ gw_result = "token_budget_exceeded"
    /\ SumTokens(usage_records) = MAX_TOKENS_PER_TASK
    /\ usage_records[Len(usage_records)].status = "success"
    /\ ~CallCapHit

\* the provider invocations made for a purpose: each writes one row, with
\* the model the purpose is pinned to
CallsFor(p) ==
    Cardinality({i \in DOMAIN usage_records :
                    usage_records[i].model = get_model_config(p).model})

\* C24: on one gateway instance the provider calls made for a purpose never
\* exceed the purpose's max_calls_per_task, failed calls and retries counted.
C24_CallsPerPurposeBounded ==
    \A p \in Purposes : CallsFor(p) <= get_model_config(p).max_calls_per_task

\* C25: the usage row of a call is committed before chat_completion returns:
\* what the budget check of the next call reads for the task is the tokens
\* and the cost of all calls completed so far.
C25_NextCheckSeesEarlierCalls ==
    gw_task_id # "NONE" =>
        /\ _get_task_usage(gw_task_id, usage_records).total_tokens = _total_tokens
        /\ _get_task_usage(gw_task_id, usage_records).total_cost = _total_cost

\* a call about to make its budget check after two completed calls
C25_Witness ==
    /\ gw_task_id # "NONE"
    /\ gw_pc = "attempt" /\ attempt = 0
    /\ _call_counts["fix_generation"] + _call_counts["guardian"] = 2
    /\ _total_tokens > 0 /\ _total_cost > 0

\* ---------------------------------------------------------------------------
\* retry_handler.py: with_retry around an operation
\* ---------------------------------------------------------------------------
\* the error_types a decoration is given: none, one kind, the gateway's list
ErrorTypeLists == {{}, {"network_timeout"}, GatewayErrorTypes}

\* the operations: raise ASAError(kind), raise ASAError(kind, message=...),
\* or raise an exception that classify_exception maps to kind
Funcs ==
    {Func("ASAError", k, m, a) :
        k \in TaxonomyKinds \cup {"database_lock"}, m \in BOOLEAN, a \in BOOLEAN}
      \cup {Func("raw", k, FALSE, a) : k \in ClassifiedKinds, a \in BOOLEAN}

InitRetry ==
    /\ OrchIdle
    /\ QueueIdle
    /\ PushIdle
    /\ PatchIdle
    /\ GatewayIdle
    /\ RetryIdle

\* the decorated function is called: attempt = 0
wrapper(error_types, func) ==
    /\ rh_pc = "idle"
    /\ rh_error_types' = error_types
    /\ rh_func' = func
    /\ rh_attempt' = 0
    /\ call_count' = 0
    /\ rh_pc' = "loop"
    /\ rh_result' = "none"
    /\ UNCHANGED <<orchVars, queueVars, gwVars, paVars, wsVars>>

\* one pass of the while loop in which the operation fails: its raise
\* statement runs (building the ASAError may itself raise KeyError), and the
\* wrapper decides
FuncRaises ==
    /\ rh_pc = "loop"
    /\ LET n      == rh_attempt + 1
           broken == rh_func.stmt = "ASAError"
                       /\ ASAErrorRaises(rh_func.kind, rh_func.has_message, {})
           is_asa == rh_func.stmt = "ASAError" /\ ~broken
           kind   == IF broken THEN ClassifyKeyError ELSE rh_func.kind
           verdict == with_retry(rh_error_types, is_asa, kind, n)
       IN /\ rh_attempt' = n
          /\ call_count' = call_count + 1
          /\ CASE verdict = "retry"     -> rh_pc' = "loop" /\ rh_result' = "none"
               [] verdict = "exhausted" -> rh_pc' = "idle" /\ rh_result' = "RetryExhausted"
               [] verdict = "raise_KeyError" -> rh_pc' = "idle" /\ rh_result' = "KeyError"
               [] verdict = "raise"     ->
                    /\ rh_pc' = "idle"
                    /\ rh_result' = IF is_asa THEN "ASAError"
                                    ELSE IF broken THEN "KeyError"
                                    ELSE "Exception"
    /\ UNCHANGED <<rh_error_types, rh_func>>
    /\ UNCHANGED <<orchVars, queueVars, gwVars, paVars, wsVars>>

\* one pass in which the operation returns: the wrapper returns its result
FuncReturns ==
    /\ rh_pc = "loop"
    /\ ~rh_func.always
    /\ rh_attempt' = rh_attempt + 1
    /\ call_count' = call_count + 1
    /\ rh_pc' = "idle"
    /\ rh_result' = "ok"
    /\ UNCHANGED <<rh_error_types, rh_func>>
    /\ UNCHANGED <<orchVars, queueVars, gwVars, paVars, wsVars>>

NextRetry ==
    \/ \E error_types \in ErrorTypeLists, func \in Funcs : wrapper(error_types, func)
    \/ FuncRaises
    \/ FuncReturns

SpecRetry == InitRetry /\ [][NextRetry]_vars

\* the kind the operation fails with is retryable and the decoration does
\* not leave it out
RetryableFailure ==
    /\ rh_func.stmt \in {"ASAError", "raw"}
    /\ rh_func.always
    /\ should_retry(rh_func.kind)
    /\ (rh_error_types = {} \/ rh_func.kind \in rh_error_types)

\* C13: an operation that fails on every invocation with a retryable kind K
\* is never invoked more than max_attempts(K) times, and when the wrapper's
\* call has ended it was invoked exactly max_attempts(K) times and
\* RetryExhausted was raised.
C13_ExactlyMaxAttempts ==
    RetryableFailure =>
        /\ call_count <= ERROR_TAXONOMY(rh_func.kind).retry_policy.max_attempts
        /\ (rh_pc = "idle" =>
              /\ call_count = ERROR_TAXONOMY(rh_func.kind).retry_policy.max_attempts
              /\ rh_result = "RetryExhausted")

\* the kind the operation fails with is one the taxonomy does not retry
NonRetryableFailure ==
    /\ rh_func.stmt \in {"ASAError", "raw"}
    /\ ~should_retry(rh_func.kind)

\* C26: an operation whose error is of a non-retryable kind is invoked at
\* most once, and when the wrapper's call has ended with that error the
\* caller has received the operation's own error (the ASAError it raises, or
\* the exception it raises), not RetryExhausted and not another exception.
C26_NonRetryablePropagatesUnchanged ==
    NonRetryableFailure =>
        /\ call_count <= 1
        /\ (rh_pc = "idle" /\ rh_result # "ok") =>
              /\ call_count = 1
              /\ rh_result = IF rh_func.stmt = "ASAError" THEN "ASAError"
                                                         ELSE "Exception"

\* C31: every member of ErrorType an operation has raised as an ASAError has
\* an entry in ERROR_TAXONOMY, hence a category and a retry policy.
C31_EveryKindHasTaxonomy ==
    \A k \in ErrorType :
        (rh_func.stmt = "ASAError" /\ rh_func.kind = k /\ rh_result = "ASAError")
            => k \in TaxonomyKinds

\* ---------------------------------------------------------------------------
\* patch_applicator.py: apply_patch_set, apply_patch, rollback
\* ---------------------------------------------------------------------------
InitPatch ==
    /\ OrchIdle
    /\ QueueIdle
    /\ PushIdle
    /\ GatewayIdle
    /\ RetryIdle
    /\ files = Workspace
    /\ backup_files = [b \in BackupPaths |-> NoFile]
    /\ applied_patches = << >>
    /\ create_backups \in BOOLEAN
    /\ now = 0
    /\ patch_set = << >>
    /\ dry_run = FALSE
    /\ fail_fast = TRUE
    /\ patch_index = 0
    /\ results = [success |-> TRUE, applied |-> 0, failed |-> 0]
    /\ pa_pc = "idle"
    /\ original_files = Workspace
    /\ last_apply = [result |-> "none", file_path |-> "none"]

\* apply_patch_set up to its loop: the whole set is validated against the
\* workspace; with errors and fail_fast it returns at once
apply_patch_set ==
    /\ pa_pc = "idle"
    /\ \E ps \in PatchSets, dr \in BOOLEAN, ff \in BOOLEAN :
          /\ patch_set' = ps
          /\ dry_run' = dr
          /\ fail_fast' = ff
          /\ results' = [success |-> ~validate(files, ps), applied |-> 0, failed |-> 0]
          /\ pa_pc' = IF (validate(files, ps) /\ ff) \/ ps = << >>
                      THEN "returned" ELSE "loop"
    /\ patch_index' = 0
    /\ original_files' = files
    /\ UNCHANGED <<files, backup_files, applied_patches, create_backups, now, last_apply>>
    /\ UNCHANGED <<orchVars, queueVars, gwVars, rhVars, wsVars>>

\* what can happen inside the try of apply_patch: it goes through, the read
\* raises, or the write raises after the file was opened for writing and
\* `written` of the new lines reached the file
WriteOutcomes ==
    {[type |-> "ok", written |-> 0], [type |-> "read_fails", written |-> 0]}
      \cup {[type |-> "write_fails", written |-> k] : k \in 0..1}

\* one round of the loop of apply_patch_set: the dry-run validation, or
\* apply_patch with the handling of its exception
apply_patch(o) ==
    /\ pa_pc = "loop"
    /\ LET patch     == patch_set[patch_index + 1]
           file_path == patch.file_path
           errors    == _validate_patch(files, patch)
           \* the round ends the loop: last patch, or an error under fail_fast
           stop(err) == (err /\ fail_fast) \/ patch_index + 1 = Len(patch_set)
           failed(success) ==
               /\ results' = [success |-> success, applied |-> results.applied,
                              failed |-> results.failed + 1]
               /\ pa_pc' = IF stop(TRUE) THEN "returned" ELSE "loop"
           applied ==
               /\ results' = [results EXCEPT !.applied = @ + 1]
               /\ pa_pc' = IF stop(FALSE) THEN "returned" ELSE "loop"
           backup_path == _create_backup(file_path, now)
           new       == new_lines(files[file_path], patch)
       IN /\ patch_index' = patch_index + 1
          /\ IF dry_run
             THEN /\ IF errors
                     THEN failed(IF fail_fast THEN FALSE ELSE results.success)
                     ELSE applied
                  /\ last_apply' = [result |-> "dry_run", file_path |-> file_path]
                  /\ UNCHANGED <<files, backup_files, applied_patches>>
             ELSE IF errors
             THEN \* PatchApplicationError before any backup
                  /\ failed(FALSE)
                  /\ last_apply' = [result |-> "invalid", file_path |-> file_path]
                  /\ UNCHANGED <<files, backup_files, applied_patches>>
             ELSE /\ backup_files' = IF create_backups
                                     THEN [backup_files EXCEPT ![backup_path] = files[file_path]]
                                     ELSE backup_files
                  /\ CASE o.type = "ok" ->
                            /\ files' = [files EXCEPT ![file_path] = new]
                            /\ applied_patches' =
                                 IF create_backups
                                 THEN Append(applied_patches,
                                             [patch |-> patch, backup_path |-> backup_path])
                                 ELSE applied_patches
                            /\ applied
                            /\ last_apply' = [result |-> "ok", file_path |-> file_path]
                       [] o.type = "read_fails" ->
                            \* the handler: backup_path is the str that
                            \* _create_backup returned, backup_path.exists()
                            \* raises AttributeError and nothing is copied
                            /\ files' = files
                            /\ applied_patches' = applied_patches
                            /\ failed(FALSE)
                            /\ last_apply' = [result |-> "exception", file_path |-> file_path]
                       [] o.type = "write_fails" ->
                            \* open(file_path, 'w') has truncated the file;
                            \* the handler copies nothing (as above)
                            /\ files' = [files EXCEPT ![file_path] =
                                           SubSeq(new, 1, IF o.written < Len(new)
                                                          THEN o.written ELSE Len(new))]
                            /\ applied_patches' = applied_patches
                            /\ failed(FALSE)
                            /\ last_apply' = [result |-> "exception", file_path |-> file_path]
    /\ UNCHANGED <<create_backups, now, patch_set, dry_run, fail_fast, original_files>>
    /\ UNCHANGED <<orchVars, queueVars, gwVars, rhVars, wsVars>>

\* a second passes between two patches
Tick ==
    /\ pa_pc = "loop"
    /\ now < MaxClock
    /\ now' = now + 1
    /\ UNCHANGED <<files, backup_files, applied_patches, create_backups, patch_set,
                   dry_run, fail_fast, patch_index, results, pa_pc, original_files,
                   last_apply>>
    /\ UNCHANGED <<orchVars, queueVars, gwVars, rhVars, wsVars>>

\* rollback after apply_patch_set has returned
rollback ==
    /\ pa_pc = "returned"
    /\ files' = restore(files, backup_files, applied_patches)
    /\ applied_patches' = << >>
    /\ pa_pc' = "rolled_back"
    /\ UNCHANGED <<backup_files, create_backups, now, patch_set, dry_run, fail_fast,
                   patch_index, results, original_files, last_apply>>
    /\ UNCHANGED <<orchVars, queueVars, gwVars, rhVars, wsVars>>

NextPatch ==
    \/ apply_patch_set
    \/ \E o \in WriteOutcomes : apply_patch(o)
    \/ Tick
    \/ rollback

SpecPatch == InitPatch /\ [][NextPatch]_vars

\* C14: after apply_patch_set, all of whose patches were applied, and
\* rollback, every file of the workspace has the content it had when
\* apply_patch_set was called, also when patches of the set share a file.
C14_RollbackRestores ==
    (pa_pc = "rolled_back" /\ create_backups /\ ~dry_run /\ results.failed = 0)
        => files = original_files

\* C15: when apply_patch raises inside its try, after the backup was taken,
\* the target file has afterwards the content it had before that patch.
C15_FailedPatchRestored ==
    [][ (patch_index' = patch_index + 1 /\ create_backups
           /\ last_apply'.result = "exception")
          => files'[last_apply'.file_path] = files[last_apply'.file_path] ]_vars

\* what a patch is to make of a file, line by line: the lines before
\* start_line, then the new code (replace, insert), then the lines after
\* end_line (replace, delete) or from start_line on (insert)
PatchedLines(lines, patch) ==
    LET s    == patch.start_line
        gone == IF patch.patch_type = "insert" THEN 0
                ELSE patch.end_line - patch.start_line + 1
        n    == IF patch.patch_type = "delete" THEN 0 ELSE Len(patch.new_code)
    IN [i \in 1..(Len(lines) - gone + n) |->
          IF i < s THEN lines[i]
          ELSE IF i < s + n THEN patch.new_code[i - s + 1]
          ELSE lines[i - n + gone]]

\* the workspace after the first k patches of the set, each applied in turn
RECURSIVE AfterPatches(_, _, _)
AfterPatches(fs, ps, k) ==
    IF k = 0 THEN fs
    ELSE LET before == AfterPatches(fs, ps, k - 1)
             patch  == ps[k]
         IN [before EXCEPT ![patch.file_path] = PatchedLines(@, patch)]

HasInvalidPatch(fs, ps) ==
    \E i \in DOMAIN ps :
        \/ fs[ps[i].file_path] = NoFile
        \/ ps[i].start_line > Len(fs[ps[i].file_path])
        \/ ps[i].end_line > Len(fs[ps[i].file_path])

\* C36: a call of apply_patch_set in fail_fast mode on a set with a
\* validation error returns at once with success = false, applied = 0 and
\* failed = 0; no file is modified, no backup is created and the
\* applied-list is unchanged.
C36_FailFastValidationAppliesNothing ==
    [][ (pa_pc = "idle" /\ pa_pc' # "idle" /\ fail_fast'
           /\ HasInvalidPatch(files, patch_set'))
          => /\ pa_pc' = "returned"
             /\ ~results'.success
             /\ results'.applied = 0
             /\ results'.failed = 0
             /\ patch_index' = 0
             /\ files' = files
             /\ backup_files' = backup_files
             /\ applied_patches' = applied_patches ]_vars

\* the call returned on the validation of a set whose first patch is valid
\* and whose second is not
C36_Witness ==
    /\ pa_pc = "returned" /\ fail_fast /\ ~dry_run
    /\ patch_index = 0
    /\ ~results.success
    /\ Len(patch_set) = 2
    /\ ~HasInvalidPatch(files, <<patch_set[1]>>)
    /\ HasInvalidPatch(files, <<patch_set[2]>>)
    /\ files = original_files
    /\ applied_patches = << >>
    /\ \A b \in BackupPaths : backup_files[b] = NoFile

\* the patch the next round of the loop handles
NextPatchOfSet == patch_set[patch_index + 1]

InitPush ==
    /\ InitOrch

\* the statuses on which websocket_endpoint sends final and leaves its loop
FinalStatuses == {"COMPLETED", "FAILED", "TIMEOUT"}

\* manager.connect accepts the socket; the task is queried and, when found,
\* a message of type status is sent (messages of the types status and update
\* are not recorded: only those of type final are counted)
websocket_connect ==
    /\ ws_pc = "none"
    /\ ws_pc' = "polling"
    /\ UNCHANGED ws_finals
    /\ UNCHANGED <<orchVars, queueVars, gwVars, rhVars, paVars>>

\* one round of the loop after the sleep: the task is queried; a missing task
\* ends the loop; a changed updated_at sends update; a status of
\* FinalStatuses sends final and ends the loop; leaving the loop ends the
\* endpoint, which closes the connection
websocket_poll ==
    /\ ws_pc = "polling"
    /\ IF ~task_exists
       THEN /\ ws_pc' = "closed"
            /\ ws_finals' = ws_finals
       ELSE IF task_status \in FinalStatuses
       THEN /\ ws_finals' = ws_finals + 1
            /\ ws_pc' = "closed"
       ELSE /\ ws_finals' = ws_finals
            /\ ws_pc' = "polling"
    /\ UNCHANGED <<orchVars, queueVars, gwVars, rhVars, paVars>>

NextPush ==
    \/ WorkerDequeue
    \/ run_task_job
    \/ RunStart
    \/ EnterState
    \/ \E o \in TransitionCondition \cup {"raise"} : HandlerReturn(o)
    \/ RunFinish
    \/ cancel_job_get_status
    \/ cancel_job
    \/ cancel_task_job_delete
    \/ cancel_task_db_delete
    \/ websocket_connect
    \/ websocket_poll

\* a cancel request that has begun runs to its end, and the endpoint's loop
\* polls every second (a cancel request need not come, and a channel need
\* not be opened)
SpecPush ==
    /\ InitPush
    /\ [][NextPush]_vars
    /\ WF_vars(cancel_job)
    /\ WF_vars(cancel_task_job_delete)
    /\ WF_vars(cancel_task_db_delete)
    /\ WF_vars(websocket_poll)

\* ---------------------------------------------------------------------------
\* Properties of the push channel (SpecPush)
\* ---------------------------------------------------------------------------
\* C20: for a task that reaches a terminal status (COMPLETED, FAILED, TIMEOUT
\* or CANCELLED), an open push channel of the task eventually sends exactly
\* one message of type final and then closes the connection.
C20_FinalThenClose ==
    (ws_pc = "polling" /\ pc = "done" /\ task_exists
       /\ task_status \in TerminalStatus)
        ~> (ws_pc = "closed" /\ ws_finals = 1)

====
